---------------------------- MODULE Spec2Model ----------------------------
(***************************************************************************)
(* COVID-19 vaccination dashboard (covid_vax_dashboard.py).                *)
(*                                                                         *)
(* The program is a Streamlit script: every page load and every widget     *)
(* interaction runs main() from top to bottom.  load_data is memoised by   *)
(* st.cache_data, keyed by its argument (the path), for the life of the    *)
(* server process.  The state is the source file, the memo, the widget     *)
(* values and what the last run of main() rendered.                        *)
(*                                                                         *)
(* The file is its data rows under the header Entity, Day, COVID-19 doses   *)
(* (daily); Entity and the dose count are present in every row (negative   *)
(* counts included), the Day field may be no date.                         *)
(*                                                                         *)
(* Numbers: dose counts are integers; a mean is kept as the exact fraction *)
(* [num, den] in lowest terms (float64 rounding is outside the model).     *)
(*                                                                         *)
(* Spec runs the dashboard over short free-form files, SpecWide over a     *)
(* daily file longer than the rolling window and over a roster of more     *)
(* entities than the slider's minimum.                                     *)
(***************************************************************************)
EXTENDS Integers, Sequences, FiniteSets, TLC

\* ------------------------------------------------------------------ bounds
\* Rows of a free-form source file (any entity, any day field, any order).
MaxRows == 3
\* Rows of a one-entity daily file (one row per day).
MaxSeries == 8
\* Rows of a one-day roster file (one row per entity).
MaxRoster == 6

\* -------------------------------------------------------- program constants
Window == 7
MinPeriods == 1
SliderMin == 5
SliderMax == 50
SliderDefault == 10

\* What to_datetime(errors='coerce') yields for a field that is no date.
NaT == -1

\* ------------------------------------------------------------ input domains
\* Calendar days, by ordinal: DayNames[d] is the ISO text of day d.
DayNames ==
  << "2021-01-01", "2021-01-02", "2021-01-03", "2021-01-04", "2021-01-05",
     "2021-01-06", "2021-01-07", "2021-01-08", "2021-01-09", "2021-01-10",
     "2021-01-11", "2021-01-12" >>

\* Entity names in ascending (lexicographic) order.
EntityNames == << "A", "B", "C", "D", "E", "F", "G", "H" >>

NoEntity == ""

DoseValues == {-3, 2}

CsvRow(e, d, v) == [Entity |-> e, Day |-> d, Doses |-> v]

\* The rows of a free-form file: two entities on two days, and one row whose
\* Day field is no date (such a row is dropped whatever else it holds).
SmallRows ==
  {CsvRow(e, d, v) : e \in {"A", "B"}, d \in {DayNames[1], DayNames[2]},
                     v \in DoseValues}
  \cup {CsvRow("B", "n/a", 2)}

Min(a, b) == IF a <= b THEN a ELSE b

Max(a, b) == IF a >= b THEN a ELSE b

\* Row i of a daily file: entity "A", latest day first; the latest day comes
\* after a gap of calendar days without a row.
SeriesDayField(i) ==
  DayNames[IF i = 1 THEN MaxSeries + 3 ELSE Max(1, MaxSeries + 1 - i)]

\* Row i of a roster file: entities in descending name order, all on day 1.
RosterEntity(i) == EntityNames[Max(1, MaxRoster + 1 - i)]

InSmall(f) == Len(f) <= MaxRows /\ \A i \in DOMAIN f : f[i] \in SmallRows

InSeries(f) ==
  /\ Len(f) <= MaxSeries
  /\ \A i \in DOMAIN f : f[i].Entity = "A" /\ f[i].Day = SeriesDayField(i)

InRoster(f) ==
  /\ Len(f) <= MaxRoster
  /\ \A i \in DOMAIN f : f[i].Entity = RosterEntity(i) /\ f[i].Day = DayNames[1]

\* The rows that may be appended to a free-form file f within the bounds.
AppendableSmall(f) ==
  IF Len(f) < MaxRows /\ InSmall(f) THEN SmallRows ELSE {}

\* The rows that may be appended to a daily or a roster file f.
AppendableWide(f) ==
  LET k == Len(f) + 1
  IN (IF k <= MaxSeries /\ InSeries(f)
      THEN {CsvRow("A", SeriesDayField(k), v) : v \in DoseValues}
      ELSE {})
     \cup
     (IF k <= MaxRoster /\ InRoster(f)
      THEN {CsvRow(RosterEntity(k), DayNames[1], v) : v \in DoseValues}
      ELSE {})

AllEntities == {EntityNames[i] : i \in DOMAIN EntityNames}

\* ------------------------------------------------------------ numeric helpers
Abs(x) == IF x < 0 THEN -x ELSE x

RECURSIVE GCD(_, _)
GCD(a, b) == IF b = 0 THEN a ELSE GCD(b, a % b)

NaN == [num |-> 0, den |-> 0]

\* sum / n as a float: NaN for n = 0, else the exact quotient.
Quotient(sum, n) ==
  IF n = 0 THEN NaN
  ELSE LET g == GCD(Abs(sum), n)
       IN [num |-> (IF sum < 0 THEN -(Abs(sum) \div g) ELSE sum \div g),
           den |-> n \div g]

IntOfFloor(x) == x.num \div x.den

\* Python int(x) of a finite float: the fraction part is cut off (toward 0).
IntOf(x) ==
  IF x.num >= 0 THEN x.num \div x.den ELSE -((-x.num) \div x.den)

RECURSIVE SumSeq(_)
SumSeq(s) == IF s = <<>> THEN 0 ELSE SumSeq(SubSeq(s, 1, Len(s) - 1)) + s[Len(s)]

Column(rows, col) == [i \in DOMAIN rows |-> rows[i][col]]

\* ------------------------------------------------------------------ loader
\* pd.to_datetime(field, errors='coerce'): the date a field spells, or NaT.
ToDatetime(s) ==
  IF \E d \in DOMAIN DayNames : DayNames[d] = s
  THEN CHOOSE d \in DOMAIN DayNames : DayNames[d] = s
  ELSE NaT

CoerceDays(rows) ==
  [i \in DOMAIN rows |-> [rows[i] EXCEPT !.Day = ToDatetime(rows[i].Day)]]

HasDay(r) == r.Day # NaT

\* df.dropna(subset=['Day'])
DropNa(rows) == SelectSeq(rows, HasDay)

\* The body of load_data: what an uncached call returns for file content f.
LoadUncached(f) == DropNa(CoerceDays(f))


\* -------------------------------------------------------------- aggregation
\* groupby(key)[doses].sum(): one accumulator per key, each row added to the
\* accumulator of its key.  pairs is the sequence of <<key, doses>>.
RECURSIVE SumByKeyLast(_)
SumByKeyLast(pairs) ==
  IF pairs = <<>> THEN <<>>
  ELSE LET acc == SumByKeyLast(SubSeq(pairs, 1, Len(pairs) - 1))
           p == pairs[Len(pairs)]
       IN IF p[1] \in DOMAIN acc
          THEN [acc EXCEPT ![p[1]] = p[2]]
          ELSE acc @@ (p[1] :> p[2])

RECURSIVE SumByKey(_)
SumByKey(pairs) ==
  IF pairs = <<>> THEN <<>>
  ELSE LET acc == SumByKey(SubSeq(pairs, 1, Len(pairs) - 1))
           p == pairs[Len(pairs)]
       IN IF p[1] \in DOMAIN acc
          THEN [acc EXCEPT ![p[1]] = @ + p[2]]
          ELSE acc @@ (p[1] :> p[2])

\* groupby sorts its group keys ascending (sort=True is the default).
RECURSIVE AscendingDays(_)
AscendingDays(S) ==
  IF S = {} THEN <<>>
  ELSE LET m == CHOOSE x \in S : \A y \in S : x <= y
       IN <<m>> \o AscendingDays(S \ {m})

NameRank(e) == CHOOSE i \in DOMAIN EntityNames : EntityNames[i] = e

RECURSIVE AscendingNames(_)
AscendingNames(S) ==
  IF S = {} THEN <<>>
  ELSE LET m == CHOOSE x \in S : \A y \in S : NameRank(x) <= NameRank(y)
       IN <<m>> \o AscendingNames(S \ {m})

\* One output row per input row: the grouping that forgets to merge a day.
GroupByDayPerRow(df) ==
  [i \in DOMAIN df |-> [Day |-> df[i].Day, Doses |-> df[i].Doses]]

\* df.groupby('Day', as_index=False)['COVID-19 doses (daily)'].sum()
GroupByDay(df) ==
  LET acc == SumByKey([i \in DOMAIN df |-> <<df[i].Day, df[i].Doses>>])
      keys == AscendingDays(DOMAIN acc)
  IN [i \in DOMAIN keys |-> [Day |-> keys[i], Doses |-> acc[keys[i]]]]

\* df.groupby('Entity', as_index=False)['COVID-19 doses (daily)'].sum()
GroupByEntity(df) ==
  LET acc == SumByKey([i \in DOMAIN df |-> <<df[i].Entity, df[i].Doses>>])
      keys == AscendingNames(DOMAIN acc)
  IN [i \in DOMAIN keys |-> [Entity |-> keys[i], Doses |-> acc[keys[i]]]]

Reverse(s) == [i \in DOMAIN s |-> s[Len(s) + 1 - i]]

\* numpy argsort(kind='quicksort') of integer keys, ascending: positions are
\* inserted one by one into the sorted prefix.  The default kind promises no
\* order among equal keys; which order comes out is fixed by the build (numpy
\* version, CPU dispatch), here the parameter tie: "stable" keeps equal keys
\* in position order, "reversed" puts the later position first.
RECURSIVE InsertAt(_, _, _, _)
InsertAt(idx, keys, i, tie) ==
  IF idx = <<>> THEN <<i>>
  ELSE LET j == idx[Len(idx)]
       IN IF keys[j] < keys[i] \/ (keys[j] = keys[i] /\ tie = "stable")
          THEN Append(idx, i)
          ELSE Append(InsertAt(SubSeq(idx, 1, Len(idx) - 1), keys, i, tie), j)

RECURSIVE ArgSortTo(_, _, _)
ArgSortTo(keys, k, tie) ==
  IF k = 0 THEN <<>> ELSE InsertAt(ArgSortTo(keys, k - 1, tie), keys, k, tie)

ArgSort(keys, tie) == ArgSortTo(keys, Len(keys), tie)

Take(rows, indexer) == [r \in DOMAIN indexer |-> rows[indexer[r]]]

\* rows.sort_values(col): ascending.
SortValuesAsc(rows, col, tie) == Take(rows, ArgSort(Column(rows, col), tie))

SortValuesDescNoSort(rows, col, tie) == rows

\* rows.sort_values(col, ascending=False): pandas reverses the rows, argsorts
\* ascending and reverses the result.
SortValuesDesc(rows, col, tie) ==
  LET rev == Reverse(rows)
  IN Reverse(Take(rev, ArgSort(Column(rev, col), tie)))

HeadRowsOneLess(rows, n) == SubSeq(rows, 1, Min(n, Len(rows)) - 1)

\* rows.head(n), n >= 0
HeadRows(rows, n) == SubSeq(rows, 1, Min(n, Len(rows)))

\* rolling(Window, min_periods=MinPeriods).mean(): pandas slides one running
\* sum and count over the column, adding x[i] and, once the window is full,
\* removing the value that leaves it.  State after position i:
RECURSIVE RollStateLate(_, _)
RollStateLate(x, i) ==
  IF i = 0 THEN [sum |-> 0, nobs |-> 0]
  ELSE LET prev == RollStateLate(x, i - 1)
           added == [sum |-> prev.sum + x[i], nobs |-> prev.nobs + 1]
       IN IF i > Window + 1
          THEN [sum |-> added.sum - x[i - Window - 1], nobs |-> added.nobs - 1]
          ELSE added

RECURSIVE RollState(_, _)
RollState(x, i) ==
  IF i = 0 THEN [sum |-> 0, nobs |-> 0]
  ELSE LET prev == RollState(x, i - 1)
           added == [sum |-> prev.sum + x[i], nobs |-> prev.nobs + 1]
       IN IF i > Window
          THEN [sum |-> added.sum - x[i - Window], nobs |-> added.nobs - 1]
          ELSE added

RollingMean(x) ==
  [i \in DOMAIN x |->
     LET s == RollState(x, i)
     IN IF s.nobs >= MinPeriods THEN Quotient(s.sum, s.nobs) ELSE NaN]

\* rows with the column '7d_avg' added.
WithRollingAvg(rows) ==
  LET avg == RollingMean(Column(rows, "Doses"))
  IN [i \in DOMAIN rows |->
        [Day |-> rows[i].Day, Doses |-> rows[i].Doses, Avg |-> avg[i]]]

\* Lines 32-33: the global daily series of a frame.
GlobalDaily(df, tie) == WithRollingAvg(SortValuesAsc(GroupByDay(df), "Day", tie))

\* Line 42: the entity totals, ranked.
TopEntities(df, tie) == SortValuesDesc(GroupByEntity(df), "Doses", tie)

FilterEntityAll(df, e) == df

\* df[df['Entity'] == chosen]
FilterEntity(df, e) ==
  LET keep == {i \in DOMAIN df : df[i].Entity = e}
      idx == AscendingDays(keep)
  IN [k \in DOMAIN idx |-> df[idx[k]]]

\* Lines 52-53: the daily series of one entity.
EntityDaily(df, e, tie) ==
  WithRollingAvg(SortValuesAsc(GroupByDay(FilterEntity(df, e)), "Day", tie))

\* Line 50: df['Entity'].unique()
Entities(df) == {df[i].Entity : i \in DOMAIN df}

\* Line 51: the selectbox options, sorted(entities).
Options(df) == AscendingNames(Entities(df))

CsvHeader == << "Day", "COVID-19 doses (daily)", "7d_avg" >>

\* rows.to_csv(index=False): the header line, then one line per row, the day
\* written back as ISO text.
ToCsv(rows) ==
  << CsvHeader >> \o
  [i \in DOMAIN rows |-> <<DayNames[rows[i].Day], rows[i].Doses, rows[i].Avg>>]

\* Line 22: df['Day'].max(); NaT for an empty frame.
LatestDate(df) ==
  IF df = <<>> THEN NaT
  ELSE CHOOSE d \in {df[i].Day : i \in DOMAIN df} :
         \A i \in DOMAIN df : df[i].Day <= d

\* Line 23: df[doses].sum()
TotalDoses(df) == SumSeq(Column(df, "Doses"))

\* Line 24: df.groupby('Day')[doses].sum().mean()
AvgDaily(df) ==
  LET sums == Column(GroupByDay(df), "Doses")
  IN Quotient(SumSeq(sums), Len(sums))

\* -------------------------------------------------------------------- state
VARIABLES
  file,          \* the rows of the source CSV, in file order
  cache,         \* st.cache_data's entry for load_data(data_path)
  tieOrder,      \* the build's order among equal sort keys
  status,        \* "idle" before the first run, then "ok" or "error"
  df,            \* the frame the last run of main() worked on
  top_n,         \* the slider's value
  chosen,        \* the selectbox's value
  latest_date,   \* KPI 'Latest Date in Data'
  total_doses,   \* KPI 'Total Doses Administered'
  avg_daily,     \* KPI 'Avg Daily Doses (overall)'
  global_daily,  \* the global chart's data
  top_entities,  \* the entity totals, ranked
  top_to_show,   \* the bar chart's data
  ent_df,        \* the entity chart's data
  csv            \* the download button's data

widgets == <<top_n, chosen>>

rendered ==
  <<latest_date, total_doses, avg_daily, global_daily, top_entities,
    top_to_show, ent_df, csv>>

vars == <<file, cache, tieOrder, status, df, widgets, rendered>>

TieOrders == {"stable", "reversed"}

\* The slider positions the model tries, within SliderMin..SliderMax.
SliderChoices == {SliderMin, SliderDefault, SliderMax}

Init ==
  /\ file = <<>>
  /\ cache = [hit |-> FALSE, df |-> <<>>]
  /\ tieOrder \in TieOrders
  /\ status = "idle"
  /\ df = <<>>
  /\ top_n = SliderDefault
  /\ chosen = NoEntity
  /\ latest_date = NaT
  /\ total_doses = 0
  /\ avg_daily = 0
  /\ global_daily = <<>>
  /\ top_entities = <<>>
  /\ top_to_show = <<>>
  /\ ent_df = <<>>
  /\ csv = <<>>

\* @st.cache_data def load_data(path): the memo is keyed by the argument
\* alone; an entry, once stored, is returned for every later call.
LoadDataResorted(c, f) ==
  IF c.hit THEN c.df ELSE SortValuesAsc(LoadUncached(f), "Day", "stable")

LoadData(c, f) == IF c.hit THEN c.df ELSE LoadUncached(f)

\* The download button's data (line 60).
DownloadOfEntity(gd, ed) == ToCsv(ed)

Download(gd, ed) == ToCsv(gd)

\* One run of main() with the slider at n and the selectbox asked for pick
\* (the first option when pick is not among the options).
RunMain(n, pick) ==
  /\ df' = LoadData(cache, file)
  /\ cache' = [hit |-> TRUE, df |-> df']
  /\ IF AvgDaily(df') = NaN
     THEN \* line 24: int() of NaN, the mean of no day sums, raises; nothing
          \* below the title is rendered
          /\ status' = "error"
          /\ top_n' = SliderDefault
          /\ chosen' = NoEntity
          /\ latest_date' = NaT
          /\ total_doses' = 0
          /\ avg_daily' = 0
          /\ global_daily' = <<>>
          /\ top_entities' = <<>>
          /\ top_to_show' = <<>>
          /\ ent_df' = <<>>
          /\ csv' = <<>>
     ELSE /\ status' = "ok"
          /\ latest_date' = LatestDate(df')
          /\ total_doses' = IntOf(Quotient(TotalDoses(df'), 1))
          /\ avg_daily' = IntOf(AvgDaily(df'))
          /\ global_daily' = GlobalDaily(df', tieOrder)
          /\ top_entities' = TopEntities(df', tieOrder)
          /\ top_n' = n
          /\ top_to_show' = HeadRows(top_entities', top_n')
          /\ chosen' = IF pick \in Entities(df') THEN pick ELSE Options(df')[1]
          /\ ent_df' = EntityDaily(df', chosen', tieOrder)
          /\ csv' = Download(global_daily', ent_df')
  /\ UNCHANGED <<file, tieOrder>>

\* The first run of the script in the session: the widgets at their defaults.
PageLoad ==
  /\ status = "idle"
  /\ RunMain(SliderDefault, NoEntity)

\* A rerun with the widgets as they are.
Refresh ==
  /\ status # "idle"
  /\ RunMain(top_n, chosen)

\* The user moves the slider.
SliderChange(n) ==
  /\ status = "ok"
  /\ n \in SliderMin .. SliderMax
  /\ n # top_n
  /\ RunMain(n, chosen)

\* The user picks another entity.
SelectEntity(c) ==
  /\ status = "ok"
  /\ c # chosen
  /\ c \in Entities(df)
  /\ RunMain(top_n, c)

\* The source file gets one more row (the dataset is updated on disk).
AppendRow(r) ==
  /\ file' = Append(file, r)
  /\ UNCHANGED <<cache, tieOrder, status, df, widgets, rendered>>

Interact ==
  \/ PageLoad
  \/ Refresh
  \/ \E n \in SliderChoices : SliderChange(n)
  \/ \E c \in Entities(df) : SelectEntity(c)

\* The dashboard over a free-form source file.
Next == Interact \/ \E r \in AppendableSmall(file) : AppendRow(r)

Spec == Init /\ [][Next]_vars

\* The dashboard over a long daily file or a wide roster file.
NextWide == Interact \/ \E r \in AppendableWide(file) : AppendRow(r)

SpecWide == Init /\ [][NextWide]_vars

\* ------------------------------------------------- vocabulary of the claims
\* Stated over row sets, independently of the pipeline's operators.
RECURSIVE SumRows(_, _)
SumRows(rows, S) ==
  IF S = {} THEN 0
  ELSE LET i == CHOOSE i \in S : TRUE
       IN rows[i].Doses + SumRows(rows, S \ {i})

DaysOf(d) == {d[i].Day : i \in DOMAIN d}

DayTotal(d, day) == SumRows(d, {i \in DOMAIN d : d[i].Day = day})

EntityTotal(d, e) == SumRows(d, {i \in DOMAIN d : d[i].Entity = e})

EntityDayTotal(d, e, day) ==
  SumRows(d, {i \in DOMAIN d : d[i].Entity = e /\ d[i].Day = day})

AllTotal(d) == SumRows(d, DOMAIN d)

OfEntity(d, e) == SelectSeq(d, LAMBDA r : r.Entity = e)

\* series[i].Avg is the mean of the Doses at positions max(1, i-6) .. i.
TrailingMeanAt(series, i) ==
  LET lo == IF i - 6 > 1 THEN i - 6 ELSE 1
      n == i - lo + 1
      a == series[i].Avg
  IN /\ n = (IF i < 7 THEN i ELSE 7)
     /\ a.den > 0
     /\ a.num * n = SumRows(series, lo .. i) * a.den

ParseableFields == {DayNames[d] : d \in DOMAIN DayNames}

\* The rows of f whose Day field is a date, in file order, the day parsed.
RECURSIVE Retained(_)
Retained(f) ==
  IF f = <<>> THEN <<>>
  ELSE LET r == f[1]
       IN (IF r.Day \in ParseableFields
           THEN << [Entity |-> r.Entity,
                    Day |-> CHOOSE d \in DOMAIN DayNames : DayNames[d] = r.Day,
                    Doses |-> r.Doses] >>
           ELSE <<>>)
          \o Retained(SubSeq(f, 2, Len(f)))

FirstRecord(d, e) == CHOOSE i \in DOMAIN d : d[i].Entity = e /\ \A j \in 1 .. (i - 1) : d[j].Entity # e

\* -------------------------------------------------------------------- claims

\* C1: the per-day totals of the global daily series add up to the sum of
\* daily doses over all loaded records, which is the 'Total Doses
\* Administered' KPI.
C1_Conservation ==
  status = "ok" =>
    /\ SumRows(global_daily, DOMAIN global_daily) = AllTotal(df)
    /\ total_doses = SumRows(global_daily, DOMAIN global_daily)

\* C1 witness: several records fall on one day, on at least two days.
C1_Witness ==
  /\ status = "ok"
  /\ Len(global_daily) >= 2
  /\ Len(df) > Len(global_daily)
  /\ total_doses # 0

C2_ExampleFile ==
  << CsvRow("A", "2021-01-01", 10), CsvRow("B", "2021-01-01", 5),
     CsvRow("A", "2021-01-02", 20) >>

\* C2: 7d_avg[i] of the date-sorted global daily series is the mean of the
\* totals at positions max(0, i-6)..i: the first i+1 totals for i < 6, exactly
\* 7 totals from then on, counted in rows; never null.  The spec's example
\* yields (d1, 15, 15.0), (d2, 20, 17.5).
C2_RollingWindow ==
  /\ status = "ok" => \A i \in DOMAIN global_daily : TrailingMeanAt(global_daily, i)
  /\ GlobalDaily(LoadUncached(C2_ExampleFile), tieOrder) =
       << [Day |-> 1, Doses |-> 15, Avg |-> [num |-> 15, den |-> 1]],
          [Day |-> 2, Doses |-> 20, Avg |-> [num |-> 35, den |-> 2]] >>

\* C2 witness: a series longer than the window, with a gap in its calendar
\* days, whose last 7-row mean differs from the mean of all its rows.
C2_Witness ==
  /\ status = "ok"
  /\ Len(global_daily) >= 8
  /\ global_daily[8].Day > global_daily[7].Day + 1
  /\ LET a == global_daily[8].Avg
     IN a.num * 8 # SumRows(global_daily, 1 .. 8) * a.den

\* C3: for every n >= 0 the first n rows of the entity ranking are min(n,
\* number of distinct entities) rows, in non-increasing order of total, each
\* total the entity's sum, and no entity left out has a larger total than
\* one kept; the bar chart shows that cut at n = top_n.
C3_TopN ==
  status = "ok" =>
    /\ top_to_show = HeadRows(top_entities, top_n)
    /\ \A n \in 0 .. (Len(top_entities) + 2) :
         LET cut == HeadRows(top_entities, n)
             kept == {cut[i].Entity : i \in DOMAIN cut}
         IN /\ Len(cut) = Min(n, Cardinality(Entities(df)))
            /\ Cardinality(kept) = Len(cut)
            /\ kept \subseteq Entities(df)
            /\ \A i \in DOMAIN cut : cut[i].Doses = EntityTotal(df, cut[i].Entity)
            /\ \A i, j \in DOMAIN cut : i < j => cut[i].Doses >= cut[j].Doses
            /\ \A e \in kept, o \in Entities(df) \ kept :
                 EntityTotal(df, e) >= EntityTotal(df, o)

\* C3 witness: the slider cuts the ranking short, and the totals differ.
C3_Witness ==
  /\ status = "ok"
  /\ Len(top_to_show) = top_n
  /\ top_n < Cardinality(Entities(df))
  /\ top_to_show[1].Doses > top_to_show[top_n].Doses

\* C4 as stated: entities with equal totals are ranked in input order, the
\* one whose first record comes earlier in the loaded records first.
C4_TiesInInputOrder ==
  status = "ok" =>
    \A i, j \in DOMAIN top_entities :
      (i < j /\ top_entities[i].Doses = top_entities[j].Doses) =>
        FirstRecord(df, top_entities[i].Entity) < FirstRecord(df, top_entities[j].Entity)

\* C4 (amended): entities with equal totals occupy consecutive ranks and
\* every entity of the records is ranked once; their order among themselves
\* is not the input order.
C4_TiesAdjacent ==
  status = "ok" =>
    /\ {top_entities[i].Entity : i \in DOMAIN top_entities} = Entities(df)
    /\ Len(top_entities) = Cardinality(Entities(df))
    /\ \A i, j \in DOMAIN top_entities :
         (i < j /\ top_entities[i].Doses = top_entities[j].Doses) =>
           \A k \in i .. j : top_entities[k].Doses = top_entities[i].Doses

\* C4 witness: a tie straddles the slider's cut.
C4_Witness ==
  /\ status = "ok"
  /\ Len(top_entities) > top_n
  /\ top_entities[top_n].Doses = top_entities[top_n + 1].Doses
  /\ top_entities[1].Doses # top_entities[top_n].Doses

\* C5: the global daily series has exactly one row per distinct Day of the
\* loaded records, holding the sum over all entities of that day, and its
\* rows are strictly ascending by Day.
C5_OneRowPerDay ==
  status = "ok" =>
    /\ {global_daily[i].Day : i \in DOMAIN global_daily} = DaysOf(df)
    /\ Len(global_daily) = Cardinality(DaysOf(df))
    /\ \A i, j \in DOMAIN global_daily :
         i < j => global_daily[i].Day < global_daily[j].Day
    /\ \A i \in DOMAIN global_daily :
         global_daily[i].Doses = DayTotal(df, global_daily[i].Day)

\* C5 witness: two entities share a day, and the records are not in date order.
C5_Witness ==
  /\ status = "ok"
  /\ Len(global_daily) >= 2
  /\ \E i, j \in DOMAIN df :
       df[i].Day = df[j].Day /\ df[i].Entity # df[j].Entity
  /\ \E i, j \in DOMAIN df : i < j /\ df[i].Day > df[j].Day

\* C6: the entity chart's series is the global daily series of the records
\* of the chosen entity alone, rolling average included; for every entity,
\* one without records too, the entity series is that of its records (empty
\* when there are none).
C6_EntityDaily ==
  status = "ok" =>
    /\ ent_df = GlobalDaily(OfEntity(df, chosen), tieOrder)
    /\ {ent_df[i].Day : i \in DOMAIN ent_df} = DaysOf(OfEntity(df, chosen))
    /\ \A i \in DOMAIN ent_df :
         /\ ent_df[i].Doses = EntityDayTotal(df, chosen, ent_df[i].Day)
         /\ TrailingMeanAt(ent_df, i)
    /\ \A e \in AllEntities :
         /\ EntityDaily(df, e, tieOrder) = GlobalDaily(OfEntity(df, e), tieOrder)
         /\ e \notin Entities(df) => EntityDaily(df, e, tieOrder) = <<>>

\* C6 witness: the chosen entity is one of several and its series differs
\* from the global one.
C6_Witness ==
  /\ status = "ok"
  /\ Cardinality(Entities(df)) >= 2
  /\ Len(ent_df) >= 2
  /\ ent_df # global_daily

\* C7: when load_data's body runs, it returns exactly the rows of the file
\* whose Day is a date, in file order.
C7_Loader ==
  [][(~cache.hit /\ cache'.hit) => (cache'.df = Retained(file) /\ df' = Retained(file))]_vars

\* C7 witness: a row was dropped between two kept rows that are not in date
\* order.
C7_Witness ==
  /\ cache.hit
  /\ Len(file) = 3
  /\ file[2].Day = "n/a"
  /\ cache.df = Retained(file)
  /\ Len(cache.df) = 2
  /\ cache.df[1].Day > cache.df[2].Day

\* C8 as stated: at every rerun the frame load_data returns is what an
\* uncached load of the file would return at that moment.
C8_CacheIsFresh ==
  [][file' = file => df' = LoadUncached(file')]_vars

\* C9: the 'Avg Daily Doses' KPI is the sum of all doses divided by the
\* number of distinct days, the fraction cut off toward zero.
C9_AvgDaily ==
  status = "ok" =>
    LET s == AllTotal(df)
        d == Cardinality(DaysOf(df))
        a == IF avg_daily < 0 THEN -avg_daily ELSE avg_daily
        m == IF s < 0 THEN -s ELSE s
    IN /\ a * d <= m
       /\ m < (a + 1) * d
       /\ avg_daily > 0 => s > 0
       /\ avg_daily < 0 => s < 0

\* C9 witness: more records than days and a negative mean with a fraction.
C9_Witness ==
  /\ status = "ok"
  /\ Len(df) > Cardinality(DaysOf(df))
  /\ AllTotal(df) < 0
  /\ (-AllTotal(df)) % Cardinality(DaysOf(df)) # 0

C10_Rendered ==
  status = "ok" =>
    /\ Len(csv) = 1 + Cardinality(DaysOf(df))
    /\ csv[1] = << "Day", "COVID-19 doses (daily)", "7d_avg" >>
    /\ \A k \in DOMAIN global_daily :
         /\ csv[k + 1] = << DayNames[global_daily[k].Day],
                            global_daily[k].Doses, global_daily[k].Avg >>
         /\ global_daily[k].Doses = DayTotal(df, global_daily[k].Day)
    /\ latest_date \in DaysOf(df)
    /\ \A d \in DaysOf(df) : d <= latest_date
    /\ total_doses = AllTotal(df)
    /\ top_to_show = HeadRows(TopEntities(df, tieOrder), top_n)
    /\ ent_df = EntityDaily(df, chosen, tieOrder)
    /\ top_n \in SliderMin .. SliderMax

C10_Frame ==
  (status = "ok" /\ status' = "ok") =>
    /\ df' = df
    /\ csv' = csv
    /\ global_daily' = global_daily
    /\ <<latest_date, total_doses, avg_daily>>' = <<latest_date, total_doses, avg_daily>>
    /\ top_n' = top_n => top_to_show' = top_to_show
    /\ chosen' = chosen => ent_df' = ent_df

\* C10: whatever the slider and the selectbox were set to, the download is
\* the global daily series of the loaded records (header, one line per
\* distinct day, three columns); it, the global chart and the KPIs do not
\* change with the interactions, the bar chart is a function of the records
\* and top_n, the entity chart of the records and the chosen entity.
C10_Interactions == [](C10_Rendered) /\ [][C10_Frame]_vars

\* C10 witness: both widgets were moved off their defaults.
C10_Witness ==
  /\ status = "ok"
  /\ top_n # SliderDefault
  /\ chosen # Options(df)[1]
  /\ Len(csv) >= 3

=============================================================================
